---- MODULE Spec2Model ----
(***************************************************************************)
(* Model of the specification-expression encoder (spec_encoder.rs) and of  *)
(* the assertion serialization boundary (specifications/json.rs).          *)
(*                                                                         *)
(* Both are pure functions.  The encoder is modelled as operators over     *)
(* records standing for HIR expressions (tag field "node"), typed          *)
(* assertions (tag field "kind") and VIR expressions (tag field "e").  A   *)
(* panic (assert!, unimplemented!, unreachable!, unwrap on Err) is the     *)
(* value Abort(why); every caller propagates it in Rust evaluation order.  *)
(***************************************************************************)
EXTENDS Integers, Sequences, FiniteSets, TLC

VARIABLES
    local_decls,  \* self.mir.local_decls: names of the MIR locals _0, _1, ...
    assertion,    \* the TypedAssertion handed to encode_assertion
    encoded,      \* the vir::Expr returned (or the abort)
    store,        \* a valuation of the MIR slots, used to evaluate `encoded`
    value,        \* the value of `encoded` in `store`
    pc,           \* "ready" -> "encoded" -> "evaluated"
    untyped,      \* the untyped::Assertion handed to to_json_string
    json,         \* the string returned by to_json_string (as JSON tokens)
    skeleton,     \* the json::Assertion returned by from_json_string
    jpc           \* "ready" -> "serialized" -> "parsed"

vars == <<local_decls, assertion, encoded, store, value, pc,
          untyped, json, skeleton, jpc>>

(***************************************************************************)
(* Bounds of the model.                                                    *)
(***************************************************************************)
MaxLit == 2        \* integer literals and slot values range over 0..MaxLit
MaxArms == 3       \* arms of a match expression
MaxChildren == 2   \* children of a conjunction
MaxVars == 2       \* bound variables of a quantifier
MaxId == 1         \* specification and expression identifiers are 0..MaxId

SeqsUpTo(S, n) == UNION {[1..k -> S] : k \in 0..n}

(***************************************************************************)
(* vir: types, local variables, fields, places and expressions.            *)
(***************************************************************************)
TypeInt == [t |-> "Int", pred |-> ""]
TypeBool == [t |-> "Bool", pred |-> ""]
TypedRef(type_name) == [t |-> "TypedRef", pred |-> type_name]

is_ref(typ) == typ.t = "TypedRef"

LocalVar(name, typ) == [name |-> name, typ |-> typ]
Field(name, typ) == [name |-> name, typ |-> typ]

Abort(why) == [e |-> "Abort", why |-> why]
IsAbort(x) == x.e = "Abort"

PlaceBase(local_var) == [e |-> "Place", base |-> local_var, fields |-> <<>>]
access(place, field) == [place EXCEPT !.fields = Append(@, field)]
get_type(place) ==
    IF place.fields = <<>> THEN place.base.typ
    ELSE place.fields[Len(place.fields)].typ

ConstInt(n) == [e |-> "Const", kind |-> "Int", ival |-> n, bval |-> FALSE]
ConstBool(b) == [e |-> "Const", kind |-> "Bool", ival |-> 0, bval |-> b]
is_num(c) == c.kind = "Int"

UnaryOp(op, arg) == [e |-> "UnaryOp", op |-> op, arg |-> arg]
BinOp(op, left, right) == [e |-> "BinOp", op |-> op, left |-> left, right |-> right]
Cond(guard, then_expr, else_expr) ==
    [e |-> "Cond", guard |-> guard, thn |-> then_expr, els |-> else_expr]
Old(arg) == [e |-> "Old", arg |-> arg]
ForAll(bound, triggers, body) ==
    [e |-> "ForAll", vars |-> bound, triggers |-> triggers, body |-> body]

IsPlace(x) == x.e = "Place"

\* ExprIterator::conjoin / disjoin: fold the expressions with and / or; of
\* no expression at all, the neutral element of the operator.
RECURSIVE FoldBin(_, _, _)
FoldBin(op, acc, rest) ==
    IF rest = <<>> THEN acc ELSE FoldBin(op, BinOp(op, acc, Head(rest)), Tail(rest))

conjoin(exprs) ==
    IF exprs = <<>> THEN ConstBool(TRUE)
    ELSE FoldBin("And", Head(exprs), Tail(exprs))

disjoin(exprs) ==
    IF exprs = <<>> THEN ConstBool(FALSE)
    ELSE FoldBin("Or", Head(exprs), Tail(exprs))

(***************************************************************************)
(* Static types (rustc's typeck tables).  Every HIR node carries the type  *)
(* the type checker gave it; the encoder only looks at its variant.        *)
(***************************************************************************)
IntTys == {"i32", "u32"}
AggTys == {"tuple", "adt"}

hir_id_to_type(x) == x.ty
encode_type_predicate_use(ty) == ty
encode_type(ty) == TypedRef(encode_type_predicate_use(ty))

(***************************************************************************)
(* HIR expressions.                                                        *)
(***************************************************************************)
HNone == [node |-> "None"]
HLitInt(n, suffix, ty) == [node |-> "Lit", lit |-> "Int", suffix |-> suffix,
                           n |-> n, b |-> FALSE, ty |-> ty]
HLitBool(b) == [node |-> "Lit", lit |-> "Bool", suffix |-> "", n |-> 0, b |-> b,
                ty |-> "bool"]
HLitStr == [node |-> "Lit", lit |-> "Str", suffix |-> "", n |-> 0, b |-> FALSE,
            ty |-> "str"]
\* def: what the path resolves to ("Local" for hir::def::Def::Local)
HPath(name, def, ty) == [node |-> "Path", name |-> name, def |-> def, ty |-> ty]
\* variant: -1 when describe_def gives None, else the variant index
HField(base, field_name, field_index, variant, ty) ==
    [node |-> "Field", expr |-> base, field_name |-> field_name,
     field_index |-> field_index, variant |-> variant, ty |-> ty]
HUnary(op, x, ty) == [node |-> "Unary", op |-> op, expr |-> x, ty |-> ty]
HBinary(op, l, r, ty) == [node |-> "Binary", op |-> op, lhs |-> l, rhs |-> r, ty |-> ty]
HIf(g, t, f, ty) == [node |-> "If", guard |-> g, thn |-> t, els |-> f, ty |-> ty]
HPat(kind, x, args_empty) == [pat |-> kind, expr |-> x, args_empty |-> args_empty]
HArm(pats, has_guard, body) == [pats |-> pats, has_guard |-> has_guard, body |-> body]
HMatch(x, arms, ty) == [node |-> "Match", expr |-> x, arms |-> arms, ty |-> ty]
HBlock(stmts_empty, x, ty) ==
    [node |-> "Block", stmts_empty |-> stmts_empty, expr |-> x, ty |-> ty]
HCall(callee, arguments, ty) ==
    [node |-> "Call", callee |-> callee, arguments |-> arguments, ty |-> ty]
HOther(ty) == [node |-> "Other", ty |-> ty]

(***************************************************************************)
(* SpecEncoder.                                                            *)
(***************************************************************************)

\* format!("{:?}", local) for a mir::Local
LocalName(i) == "_" \o ToString(i)

\* position in local_decls of the first local named `name` (0 when none);
\* local_decls[k] is the name of local _(k-1), "" standing for None
FindLocal(name) ==
    LET hits == {k \in 1..Len(local_decls) : local_decls[k] # "" /\ local_decls[k] = name}
    IN IF hits = {} THEN 0 ELSE CHOOSE k \in hits : \A j \in hits : k <= j

\* the integer check left out: every binding becomes an Int variable
encode_hir_arg_unchecked(arg) ==
    IF arg.pat \notin {"Lit", "Binding"} THEN Abort("unimplemented")
    ELSE LocalVar(arg.name, TypeInt)

encode_hir_arg(arg) ==
    IF arg.pat \notin {"Lit", "Binding"} THEN Abort("unimplemented")
    ELSE IF hir_id_to_type(arg) \notin IntTys THEN Abort("assert")
    ELSE LocalVar(arg.name, TypeInt)

\* `result` looked up among the locals like any other name
encode_hir_variable_plain_result(var_path) ==
    LET original_var_name == var_path.name
        k == FindLocal(original_var_name)
        is_quantified_var == k = 0
        var_name == IF k # 0 THEN LocalName(k - 1) ELSE original_var_name
        var_ty == hir_id_to_type(var_path)
    IN  IF var_path.def # "Local" THEN Abort("unimplemented")
        ELSE IF is_quantified_var
        THEN IF var_ty \in IntTys THEN LocalVar(var_name, TypeInt) ELSE Abort("assert")
        ELSE LocalVar(var_name, TypedRef(encode_type_predicate_use(var_ty)))

encode_hir_variable(var_path) ==
    LET original_var_name == var_path.name
        k == FindLocal(original_var_name)
        is_quantified_var == original_var_name # "result" /\ k = 0
        var_name == IF original_var_name = "result" THEN "_0"
                    ELSE IF k # 0 THEN LocalName(k - 1)
                    ELSE original_var_name
        var_ty == hir_id_to_type(var_path)
    IN  IF var_path.def # "Local" THEN Abort("unimplemented")
        ELSE IF is_quantified_var
        THEN IF var_ty \in IntTys THEN LocalVar(var_name, TypeInt) ELSE Abort("assert")
        ELSE LocalVar(var_name, TypedRef(encode_type_predicate_use(var_ty)))

encode_hir_field(field_expr) ==
    LET base_expr_ty == hir_id_to_type(field_expr.expr)
        field_name ==
            IF base_expr_ty = "adt"
            THEN IF field_expr.variant >= 0
                 THEN "enum_" \o ToString(field_expr.variant) \o "_" \o field_expr.field_name
                 ELSE "enum_0_" \o field_expr.field_name
            ELSE "tuple_" \o ToString(field_expr.field_index)
    IN  Field(field_name, encode_type(hir_id_to_type(field_expr)))

RECURSIVE encode_hir_path(_)
encode_hir_path(base_expr) ==
    LET base_ty == hir_id_to_type(base_expr) IN
    CASE base_expr.node = "Field" ->
            LET place == encode_hir_path(base_expr.expr) IN
            IF IsAbort(place) THEN place
            ELSE IF ~is_ref(get_type(place)) THEN Abort("assert")
            ELSE access(place, encode_hir_field(base_expr))
      [] base_expr.node = "Unary" /\ base_expr.op = "UnDeref" ->
            LET place == encode_hir_path(base_expr.expr) IN
            IF IsAbort(place) THEN place
            ELSE IF ~is_ref(get_type(place)) THEN Abort("assert")
            ELSE access(place, Field("val_ref", TypedRef(encode_type_predicate_use(base_ty))))
      [] base_expr.node = "Unary" /\ base_expr.op # "UnDeref" -> Abort("unreachable")
      [] base_expr.node \in {"Lit", "Binary", "If", "Match"} -> Abort("unreachable")
      [] base_expr.node = "Path" ->
            LET v == encode_hir_variable(base_expr) IN
            IF "e" \in DOMAIN v THEN v ELSE PlaceBase(v)
      [] OTHER -> Abort("unimplemented")

\* the accessor chosen by the static type alone, the is_ref test left out
encode_hir_path_expr_always(base_expr) ==
    LET place == encode_hir_path(base_expr)
        base_ty == hir_id_to_type(base_expr)
    IN  IF IsAbort(place) THEN place
        ELSE CASE base_ty = "bool" -> access(place, Field("val_bool", TypeBool))
               [] base_ty \in IntTys -> access(place, Field("val_int", TypeInt))
               [] base_ty \in AggTys -> place
               [] OTHER -> Abort("unimplemented")

encode_hir_path_expr(base_expr) ==
    LET place == encode_hir_path(base_expr)
        base_ty == hir_id_to_type(base_expr)
    IN  IF IsAbort(place) THEN place
        ELSE IF is_ref(get_type(place))
        THEN CASE base_ty = "bool" -> access(place, Field("val_bool", TypeBool))
               [] base_ty \in IntTys -> access(place, Field("val_int", TypeInt))
               [] base_ty \in AggTys -> place
               [] OTHER -> Abort("unimplemented")
        ELSE place

\* the literal's u128 value; the Signed case casts it to i128, which keeps
\* every value below 2^127 (all literals here are at most 10 + MaxArms)
encode_literal_expr(lit) ==
    CASE lit.lit = "Int" -> ConstInt(lit.n)
      [] lit.lit = "Bool" -> ConstBool(lit.b)
      [] OTHER -> Abort("unimplemented")

\* the first abort of a sequence of encoded items, in evaluation order
RECURSIVE FirstAbort(_)
FirstAbort(items) ==
    IF items = <<>> THEN [e |-> "None"]
    ELSE IF "e" \in DOMAIN Head(items) /\ IsAbort(Head(items)) THEN Head(items)
    ELSE FirstAbort(Tail(items))

is_bool_place(x) == IsPlace(x) /\ get_type(x) = TypeBool

\* BiLt and BiLe exchanged in the operator table
encode_binary_lt_le(op, left_expr, right_expr) ==
    LET is_bool == IsPlace(left_expr) /\ get_type(left_expr) = TypeBool IN
    CASE op = "BiAdd" -> BinOp("Add", left_expr, right_expr)
      [] op = "BiSub" -> BinOp("Sub", left_expr, right_expr)
      [] op = "BiMul" -> BinOp("Mul", left_expr, right_expr)
      [] op = "BiDiv" -> BinOp("Div", left_expr, right_expr)
      [] op = "BiRem" -> BinOp("Rem", left_expr, right_expr)
      [] op = "BiAnd" -> BinOp("And", left_expr, right_expr)
      [] op = "BiOr" -> BinOp("Or", left_expr, right_expr)
      [] op = "BiBitXor" /\ is_bool -> BinOp("Xor", left_expr, right_expr)
      [] op = "BiBitAnd" /\ is_bool -> BinOp("And", left_expr, right_expr)
      [] op = "BiBitOr" /\ is_bool -> BinOp("Or", left_expr, right_expr)
      [] op = "BiEq" -> BinOp("EqCmp", left_expr, right_expr)
      [] op = "BiLt" -> BinOp("LeCmp", left_expr, right_expr)
      [] op = "BiLe" -> BinOp("LtCmp", left_expr, right_expr)
      [] op = "BiNe" -> BinOp("NeCmp", left_expr, right_expr)
      [] op = "BiGt" -> BinOp("GtCmp", left_expr, right_expr)
      [] op = "BiGe" -> BinOp("GeCmp", left_expr, right_expr)
      [] OTHER -> Abort("unimplemented")

encode_binary(op, left_expr, right_expr) ==
    LET is_bool == is_bool_place(left_expr) IN
    CASE op = "BiAdd" -> BinOp("Add", left_expr, right_expr)
      [] op = "BiSub" -> BinOp("Sub", left_expr, right_expr)
      [] op = "BiMul" -> BinOp("Mul", left_expr, right_expr)
      [] op = "BiDiv" -> BinOp("Div", left_expr, right_expr)
      [] op = "BiRem" -> BinOp("Rem", left_expr, right_expr)
      [] op = "BiAnd" -> BinOp("And", left_expr, right_expr)
      [] op = "BiOr" -> BinOp("Or", left_expr, right_expr)
      [] op = "BiBitXor" /\ is_bool -> BinOp("Xor", left_expr, right_expr)
      [] op = "BiBitAnd" /\ is_bool -> BinOp("And", left_expr, right_expr)
      [] op = "BiBitOr" /\ is_bool -> BinOp("Or", left_expr, right_expr)
      [] op = "BiEq" -> BinOp("EqCmp", left_expr, right_expr)
      [] op = "BiLt" -> BinOp("LtCmp", left_expr, right_expr)
      [] op = "BiLe" -> BinOp("LeCmp", left_expr, right_expr)
      [] op = "BiNe" -> BinOp("NeCmp", left_expr, right_expr)
      [] op = "BiGt" -> BinOp("GtCmp", left_expr, right_expr)
      [] op = "BiGe" -> BinOp("GeCmp", left_expr, right_expr)
      [] OTHER -> Abort("unimplemented")

encode_not(encoded_expr) ==
    IF is_bool_place(encoded_expr) THEN UnaryOp("Not", encoded_expr) ELSE Abort("assert")

encode_neg(encoded_expr) ==
    LET is_int == \/ IsPlace(encoded_expr) /\ get_type(encoded_expr) = TypeInt
                  \/ encoded_expr.e = "Const" /\ is_num(encoded_expr)
    IN  IF is_int THEN UnaryOp("Minus", encoded_expr) ELSE Abort("assert")

\* the two assert!s that open the ExprMatch case
match_arms_supported(arms) ==
    /\ \A i \in 1..Len(arms) : ~arms[i].has_guard
    /\ \A i \in 1..Len(arms) : \A j \in 1..Len(arms[i].pats) :
          LET pat == arms[i].pats[j] IN
          CASE pat.pat \in {"Wild", "Lit"} -> TRUE
            [] pat.pat \in {"Struct", "TupleStruct", "Tuple"} -> pat.args_empty
            [] OTHER -> FALSE

\* the old(..) wrapper forgotten
encode_call_unwrapped(fn_name, arguments, encoded_first) ==
    IF fn_name = "old"
    THEN IF Len(arguments) # 1 THEN Abort("assert") ELSE encoded_first
    ELSE Abort("unimplemented")

encode_call(fn_name, arguments, encoded_first) ==
    IF fn_name = "old"
    THEN IF Len(arguments) # 1 THEN Abort("assert")
         ELSE IF IsAbort(encoded_first) THEN encoded_first
         ELSE Old(encoded_first)
    ELSE Abort("unimplemented")

RECURSIVE encode_hir_expr(_), encode_match_arms(_, _, _), encode_pats(_, _)

encode_hir_expr(base_expr) ==
    CASE base_expr.node = "Lit" -> encode_literal_expr(base_expr)
      [] base_expr.node = "Binary" ->
            LET left_expr == encode_hir_expr(base_expr.lhs) IN
            IF IsAbort(left_expr) THEN left_expr ELSE
            LET right_expr == encode_hir_expr(base_expr.rhs) IN
            IF IsAbort(right_expr) THEN right_expr ELSE
            encode_binary(base_expr.op, left_expr, right_expr)
      [] base_expr.node = "Unary" /\ base_expr.op = "UnDeref" ->
            encode_hir_path_expr(base_expr)
      [] base_expr.node = "Field" -> encode_hir_path_expr(base_expr)
      [] base_expr.node = "Path" -> encode_hir_path_expr(base_expr)
      [] base_expr.node = "Unary" /\ base_expr.op = "UnNot" ->
            LET encoded_expr == encode_hir_expr(base_expr.expr) IN
            IF IsAbort(encoded_expr) THEN encoded_expr ELSE encode_not(encoded_expr)
      [] base_expr.node = "Unary" /\ base_expr.op = "UnNeg" ->
            LET encoded_expr == encode_hir_expr(base_expr.expr) IN
            IF IsAbort(encoded_expr) THEN encoded_expr ELSE encode_neg(encoded_expr)
      [] base_expr.node = "If" /\ base_expr.els.node # "None" ->
            LET encoded_guard == encode_hir_expr(base_expr.guard) IN
            IF IsAbort(encoded_guard) THEN encoded_guard ELSE
            LET encoded_then == encode_hir_expr(base_expr.thn) IN
            IF IsAbort(encoded_then) THEN encoded_then ELSE
            LET encoded_else == encode_hir_expr(base_expr.els) IN
            IF IsAbort(encoded_else) THEN encoded_else ELSE
            Cond(encoded_guard, encoded_then, encoded_else)
      [] base_expr.node = "Match" ->
            IF ~match_arms_supported(base_expr.arms) THEN Abort("assert") ELSE
            LET encoded_expr_value == encode_hir_expr(base_expr.expr) IN
            IF IsAbort(encoded_expr_value) THEN encoded_expr_value
            ELSE encode_match_arms(base_expr.expr, encoded_expr_value, base_expr.arms)
      [] base_expr.node = "Block" ->
            IF ~base_expr.stmts_empty THEN Abort("assert")
            ELSE IF base_expr.expr.node = "None" THEN Abort("assert")
            ELSE encode_hir_expr(base_expr.expr)
      [] base_expr.node = "Call" ->
            IF base_expr.callee.node = "Path"
            THEN encode_call(base_expr.callee.name, base_expr.arguments,
                             IF Len(base_expr.arguments) = 1
                             THEN encode_hir_expr(base_expr.arguments[1])
                             ELSE Abort("assert"))
            ELSE Abort("unimplemented")
      [] OTHER -> Abort("unimplemented")

\* the loop over first_arm.pats: one condition per pattern, or the first abort
encode_pats(matched_expr_value, pats) ==
    IF pats = <<>> THEN <<>>
    ELSE LET pat == Head(pats)
             encoded_pat ==
                CASE pat.pat = "Wild" -> ConstBool(TRUE)
                  [] pat.pat = "Lit" ->
                        LET target == encode_hir_expr(pat.expr) IN
                        IF IsAbort(target) THEN target
                        ELSE BinOp("EqCmp", matched_expr_value, target)
                  [] OTHER -> Abort("unimplemented")
         IN  <<encoded_pat>> \o encode_pats(matched_expr_value, Tail(pats))

\* the conditional built with its branches exchanged
encode_match_arms_swapped(base_expr, matched_expr_value, arms) ==
    IF arms = <<>> THEN Abort("assert") ELSE
    LET first_arm == arms[1]
        encoded_body == encode_hir_expr(first_arm.body)
    IN  IF IsAbort(encoded_body) THEN encoded_body
        ELSE IF Len(arms) = 1 THEN encoded_body
        ELSE LET encoded_pats == encode_pats(matched_expr_value, first_arm.pats)
                 bad == FirstAbort(encoded_pats)
             IN  IF bad.e # "None" THEN bad ELSE
                 LET rest == encode_match_arms(base_expr, matched_expr_value, Tail(arms))
                 IN  IF IsAbort(rest) THEN rest
                     ELSE Cond(disjoin(encoded_pats), rest, encoded_body)

encode_match_arms(base_expr, matched_expr_value, arms) ==
    IF arms = <<>> THEN Abort("assert") ELSE
    LET first_arm == arms[1]
        encoded_body == encode_hir_expr(first_arm.body)
    IN  IF IsAbort(encoded_body) THEN encoded_body
        ELSE IF Len(arms) = 1 THEN encoded_body
        ELSE LET encoded_pats == encode_pats(matched_expr_value, first_arm.pats)
                 bad == FirstAbort(encoded_pats)
             IN  IF bad.e # "None" THEN bad ELSE
                 LET rest == encode_match_arms(base_expr, matched_expr_value, Tail(arms))
                 IN  IF IsAbort(rest) THEN rest
                     ELSE Cond(disjoin(encoded_pats), encoded_body, rest)

RECURSIVE encode_exprs(_)
encode_exprs(exprs) ==
    IF exprs = <<>> THEN <<>>
    ELSE <<encode_hir_expr(Head(exprs))>> \o encode_exprs(Tail(exprs))

\* vir::Trigger::new(terms): a trigger is the sequence of its encoded terms
encode_trigger(trigger) ==
    LET terms == encode_exprs(trigger)
        bad == FirstAbort(terms)
    IN  IF bad.e # "None" THEN bad ELSE [e |-> "Trigger", terms |-> terms]

RECURSIVE encode_args(_), encode_triggers(_)
encode_args(args) ==
    IF args = <<>> THEN <<>>
    ELSE <<encode_hir_arg(Head(args))>> \o encode_args(Tail(args))

encode_triggers(triggers) ==
    IF triggers = <<>> THEN <<>>
    ELSE <<encode_trigger(Head(triggers))>> \o encode_triggers(Tail(triggers))

(***************************************************************************)
(* Typed assertions (prusti_interface::specifications) and their encoding. *)
(***************************************************************************)
AExpr(x) == [kind |-> "Expr", expr |-> x]
AAnd(assertions) == [kind |-> "And", assertions |-> assertions]
AImplies(lhs, rhs) == [kind |-> "Implies", lhs |-> lhs, rhs |-> rhs]
AForAll(bound, triggers, filter, body) ==
    [kind |-> "ForAll", vars |-> bound, triggers |-> triggers,
     filter |-> filter, body |-> body]
HArg(pat, name, ty) == [pat |-> pat, name |-> name, ty |-> ty]

RECURSIVE encode_assertion(_), encode_assertions(_)

encode_assertions(assertions) ==
    IF assertions = <<>> THEN <<>>
    ELSE <<encode_assertion(Head(assertions))>> \o encode_assertions(Tail(assertions))

encode_forall(a) ==
    LET bound == encode_args(a.vars)
        bad_var == FirstAbort(bound)
    IN  IF bad_var.e # "None" THEN bad_var ELSE
        LET triggers == encode_triggers(a.triggers)
            bad_trigger == FirstAbort(triggers)
        IN  IF bad_trigger.e # "None" THEN bad_trigger ELSE
            LET filter == encode_hir_expr(a.filter) IN
            IF IsAbort(filter) THEN filter ELSE
            LET body == encode_hir_expr(a.body) IN
            IF IsAbort(body) THEN body ELSE
            ForAll(bound, triggers, BinOp("Implies", filter, body))

\* the And arm: every child is encoded and the list is handed to conjoin
\* as it is, the empty list too
encode_and(a) ==
    LET children == encode_assertions(a.assertions)
        bad == FirstAbort(children)
    IN  IF bad.e # "None" THEN bad ELSE conjoin(children)

encode_assertion(a) ==
    CASE a.kind = "Expr" -> encode_hir_expr(a.expr)
      [] a.kind = "And" -> encode_and(a)
      [] a.kind = "Implies" ->
            LET lhs == encode_hir_expr(a.lhs) IN
            IF IsAbort(lhs) THEN lhs ELSE
            LET rhs == encode_assertion(a.rhs) IN
            IF IsAbort(rhs) THEN rhs ELSE BinOp("Implies", lhs, rhs)
      [] a.kind = "ForAll" -> encode_forall(a)

(***************************************************************************)
(* Meaning of a VIR expression in a valuation of the slots: `cur` gives    *)
(* the current value of each base variable, `old` its value on entry.      *)
(***************************************************************************)
VInt(n) == [ok |-> TRUE, kind |-> "Int", ival |-> n, bval |-> FALSE]
VBool(b) == [ok |-> TRUE, kind |-> "Bool", ival |-> 0, bval |-> b]
VErr == [ok |-> FALSE, kind |-> "Err", ival |-> 0, bval |-> FALSE]

EvalArith(op, l, r) ==
    CASE op = "Add" -> VInt(l.ival + r.ival)
      [] op = "Sub" -> VInt(l.ival - r.ival)
      [] op = "Mul" -> VInt(l.ival * r.ival)
      [] op = "Div" -> IF r.ival = 0 THEN VErr ELSE VInt(l.ival \div r.ival)
      [] op = "Rem" -> IF r.ival = 0 THEN VErr ELSE VInt(l.ival % r.ival)

EvalLogic(op, l, r) ==
    CASE op = "And" -> VBool(l.bval /\ r.bval)
      [] op = "Or" -> VBool(l.bval \/ r.bval)
      [] op = "Xor" -> VBool(l.bval # r.bval)
      [] op = "Implies" -> VBool(l.bval => r.bval)

EvalOrder(op, l, r) ==
    CASE op = "LtCmp" -> VBool(l.ival < r.ival)
      [] op = "LeCmp" -> VBool(l.ival <= r.ival)
      [] op = "GtCmp" -> VBool(l.ival > r.ival)
      [] op = "GeCmp" -> VBool(l.ival >= r.ival)

EvalBin(op, l, r) ==
    CASE ~l.ok \/ ~r.ok -> VErr
      [] op \in {"Add", "Sub", "Mul", "Div", "Rem"} ->
            IF l.kind # "Int" \/ r.kind # "Int" THEN VErr ELSE EvalArith(op, l, r)
      [] op \in {"And", "Or", "Xor", "Implies"} ->
            IF l.kind # "Bool" \/ r.kind # "Bool" THEN VErr ELSE EvalLogic(op, l, r)
      [] op \in {"EqCmp", "NeCmp"} ->
            IF l.kind # r.kind THEN VErr
            ELSE VBool((op = "EqCmp") <=> (l.ival = r.ival /\ l.bval = r.bval))
      [] op \in {"LtCmp", "LeCmp", "GtCmp", "GeCmp"} ->
            IF l.kind # "Int" \/ r.kind # "Int" THEN VErr ELSE EvalOrder(op, l, r)
      [] OTHER -> VErr

EvalPlace(x, cur) ==
    IF x.base.name \notin DOMAIN cur THEN VErr
    ELSE LET v == cur[x.base.name] IN
         CASE get_type(x) = TypeInt /\ v.kind = "Int" -> v
           [] get_type(x) = TypeBool /\ v.kind = "Bool" -> v
           [] OTHER -> VErr

EvalUnary(op, v) ==
    CASE op = "Not" /\ v.kind = "Bool" -> VBool(~v.bval)
      [] op = "Minus" /\ v.kind = "Int" -> VInt(0 - v.ival)
      [] OTHER -> VErr

RECURSIVE Eval(_, _, _)
Eval(x, cur, old) ==
    CASE x.e = "Const" -> IF x.kind = "Int" THEN VInt(x.ival) ELSE VBool(x.bval)
      [] x.e = "Place" -> EvalPlace(x, cur)
      [] x.e = "UnaryOp" -> EvalUnary(x.op, Eval(x.arg, cur, old))
      [] x.e = "BinOp" -> EvalBin(x.op, Eval(x.left, cur, old), Eval(x.right, cur, old))
      [] x.e = "Cond" ->
            LET g == Eval(x.guard, cur, old) IN
            IF g.kind # "Bool" THEN VErr
            ELSE IF g.bval THEN Eval(x.thn, cur, old) ELSE Eval(x.els, cur, old)
      [] x.e = "Old" -> Eval(x.arg, old, old)
      [] OTHER -> VErr

(***************************************************************************)
(* The JSON text: characters, strings, numbers and identifiers as          *)
(* serde_json reads and writes them.                                       *)
(***************************************************************************)
\* the characters of a JSON text
Ch(s, k) == SubSeq(s, k, k)
\* the characters from the space on, in the order of their codes: 32..95,
\* 97..126 and 127..255 (a string of a module holds the characters 0..255
\* but the grave accent, 96)
AsciiLow == " !\"#$%&'()*+,-./0123456789:;<=>?@ABCDEFGHIJKLMNOPQRSTUVWXYZ[\\]^_"
AsciiHigh == "abcdefghijklmnopqrstuvwxyz{|}~"
Latin1 == " ¡¢£¤¥¦§¨©ª«¬­®¯°±²³´µ¶·¸¹º»¼½¾¿ÀÁÂÃÄÅÆÇÈÉÊËÌÍÎÏÐÑÒÓÔÕÖ×ØÙÚÛÜÝÞßàáâãäåæçèéêëìíîïðñòóôõö÷øùúûüýþÿ"
InTable(table, c) == \E k \in 1..Len(table) : Ch(table, k) = c
IndexIn(table, c) == CHOOSE k \in 1..Len(table) : Ch(table, k) = c
\* a control character: one below the space, code 0..31 (every character
\* that is not one from the space on)
IsControl(c) == ~InTable(AsciiLow, c) /\ ~InTable(AsciiHigh, c) /\ ~InTable(Latin1, c)
\* the code point of a character from the space on
CharCode(c) ==
    IF InTable(AsciiLow, c) THEN 31 + IndexIn(AsciiLow, c)
    ELSE IF InTable(AsciiHigh, c) THEN 96 + IndexIn(AsciiHigh, c)
    ELSE IF InTable(Latin1, c) THEN 126 + IndexIn(Latin1, c)
    ELSE 0

RECURSIVE Codes(_)
Codes(name) ==
    IF name = "" THEN <<>>
    ELSE <<CharCode(Ch(name, 1))>> \o Codes(SubSeq(name, 2, Len(name)))

IsDigit(c) == c \in {"0", "1", "2", "3", "4", "5", "6", "7", "8", "9"}
AllDigits(s) == Len(s) >= 1 /\ \A k \in 1..Len(s) : IsDigit(Ch(s, k))
IsUnsigned(s) == AllDigits(s) /\ (Len(s) = 1 \/ Ch(s, 1) # "0")
IsExponent(s) ==
    \/ s = ""
    \/ /\ Len(s) >= 2 /\ Ch(s, 1) \in {"e", "E"}
       /\ IF Ch(s, 2) \in {"+", "-"} THEN AllDigits(SubSeq(s, 3, Len(s)))
          ELSE AllDigits(SubSeq(s, 2, Len(s)))
IsFraction(s) ==
    \/ IsExponent(s)
    \/ /\ Len(s) >= 2 /\ Ch(s, 1) = "."
       /\ \E k \in 2..Len(s) : AllDigits(SubSeq(s, 2, k)) /\ IsExponent(SubSeq(s, k + 1, Len(s)))
IsNumberTok(t) ==
    LET body == IF Len(t) >= 1 /\ Ch(t, 1) = "-" THEN SubSeq(t, 2, Len(t)) ELSE t IN
    \E k \in 1..Len(body) : IsUnsigned(SubSeq(body, 1, k)) /\ IsFraction(SubSeq(body, k + 1, Len(body)))

HexValue(c) ==
    LET digits == "0123456789abcdef"
        upper == "ABCDEF"
    IN  IF \E k \in 1..16 : Ch(digits, k) = c THEN (CHOOSE k \in 1..16 : Ch(digits, k) = c) - 1
        ELSE IF \E k \in 1..6 : Ch(upper, k) = c THEN (CHOOSE k \in 1..6 : Ch(upper, k) = c) + 9
        ELSE -1

\* decode_hex_escape: the value of the four hexadecimal digits at k, -1 when
\* they are not there (last: the position of the last character before the
\* closing quote)
decode_hex_escape(s, k, last) ==
    IF k + 3 > last \/ \E j \in k..(k + 3) : HexValue(Ch(s, j)) < 0 THEN -1
    ELSE 4096 * HexValue(Ch(s, k)) + 256 * HexValue(Ch(s, k + 1))
            + 16 * HexValue(Ch(s, k + 2)) + HexValue(Ch(s, k + 3))

SimpleEscapes == {"\"", "\\", "/", "b", "f", "n", "r", "t"}
EscapeCode(e) ==
    CASE e = "b" -> 8 [] e = "f" -> 12 [] e = "n" -> 10 [] e = "r" -> 13 [] e = "t" -> 9
      [] OTHER -> CharCode(e)

\* ignore_str: the characters of a string that is read and dropped, from k
\* up to the closing quote: no bare quote, no control character, every
\* escape a known one, \u followed by four hexadecimal digits
RECURSIVE ignore_str(_, _, _)
ignore_str(s, k, last) ==
    IF k > last THEN TRUE
    ELSE IF Ch(s, k) = "\"" \/ IsControl(Ch(s, k)) THEN FALSE
    ELSE IF Ch(s, k) # "\\" THEN ignore_str(s, k + 1, last)
    ELSE IF k + 1 > last THEN FALSE
    ELSE IF Ch(s, k + 1) \in SimpleEscapes THEN ignore_str(s, k + 2, last)
    ELSE IF Ch(s, k + 1) = "u" /\ decode_hex_escape(s, k + 2, last) >= 0
    THEN ignore_str(s, k + 6, last)
    ELSE FALSE

IsStringTok(t) ==
    /\ Len(t) >= 2 /\ Ch(t, 1) = "\"" /\ Ch(t, Len(t)) = "\""
    /\ ignore_str(t, 2, Len(t) - 1)

\* parse_str: the code points of a string that is kept (an object key, a
\* variant tag), its escapes decoded; a surrogate must come as a pair
StrErr == <<-1>>
StrCons(code, rest) == IF rest = StrErr THEN StrErr ELSE <<code>> \o rest

RECURSIVE str_codes(_, _, _)
str_codes(s, k, last) ==
    IF k > last THEN <<>>
    ELSE IF Ch(s, k) = "\"" \/ IsControl(Ch(s, k)) THEN StrErr
    ELSE IF Ch(s, k) # "\\" THEN StrCons(CharCode(Ch(s, k)), str_codes(s, k + 1, last))
    ELSE IF k + 1 > last THEN StrErr
    ELSE IF Ch(s, k + 1) \in SimpleEscapes
    THEN StrCons(EscapeCode(Ch(s, k + 1)), str_codes(s, k + 2, last))
    ELSE IF Ch(s, k + 1) # "u" THEN StrErr
    ELSE LET n1 == decode_hex_escape(s, k + 2, last) IN
         IF n1 < 0 \/ n1 \in 56320..57343 THEN StrErr
         ELSE IF n1 \notin 55296..56319 THEN StrCons(n1, str_codes(s, k + 6, last))
         ELSE IF ~(k + 7 <= last /\ Ch(s, k + 6) = "\\" /\ Ch(s, k + 7) = "u") THEN StrErr
         ELSE LET n2 == decode_hex_escape(s, k + 8, last) IN
              IF n2 \notin 56320..57343 THEN StrErr
              ELSE StrCons(65536 + 1024 * (n1 - 55296) + (n2 - 56320),
                           str_codes(s, k + 12, last))

parse_str(t) ==
    IF Len(t) >= 2 /\ Ch(t, 1) = "\"" /\ Ch(t, Len(t)) = "\""
    THEN str_codes(t, 2, Len(t) - 1)
    ELSE StrErr

\* the key or tag t, decoded, is the name
IsName(t, name) == parse_str(t) = Codes(name)

\* an identifier: an unsigned 64-bit integer, held as its decimal digits
\* (NoId: none)
NoId == <<>>
U64Max == <<1, 8, 4, 4, 6, 7, 4, 4, 0, 7, 3, 7, 0, 9, 5, 5, 1, 6, 1, 5>>

RECURSIVE IdOf(_)
IdOf(n) == IF n < 10 THEN <<n>> ELSE IdOf(n \div 10) \o <<n % 10>>

RECURSIVE DigitsLeq(_, _)
DigitsLeq(a, b) ==
    IF a = <<>> THEN TRUE
    ELSE IF Head(a) # Head(b) THEN Head(a) < Head(b)
    ELSE DigitsLeq(Tail(a), Tail(b))

FitsU64(id) ==
    Len(id) < Len(U64Max) \/ (Len(id) = Len(U64Max) /\ DigitsLeq(id, U64Max))

RECURSIVE DigitsOf(_)
DigitsOf(s) ==
    IF s = "" THEN <<>>
    ELSE <<HexValue(Ch(s, 1))>> \o DigitsOf(SubSeq(s, 2, Len(s)))

\* serde_json's text for an identifier: its decimal digits; read back from
\* an integer token without sign, fraction, exponent or leading zero that
\* fits the 64 bits (NoId: rejected)
RECURSIVE ser_id(_)
ser_id(id) ==
    IF id = <<>> THEN ""
    ELSE Ch("0123456789", Head(id) + 1) \o ser_id(Tail(id))

de_id(tok) ==
    IF IsUnsigned(tok) /\ FitsU64(DigitsOf(tok)) THEN DigitsOf(tok) ELSE NoId

(***************************************************************************)
(* specifications/json.rs: the wire skeleton of an assertion.              *)
(*                                                                         *)
(* A tree (an untyped assertion, or its skeleton) is held as the sequence  *)
(* of its nodes in prefix order, each node with its kind and the number n  *)
(* of its children, a leaf with its identifiers.  UExpr, UAnd, UImplies,   *)
(* UForAll build an untyped assertion, JExpr, JAnd, JImplies a skeleton.   *)
(* A JSON string is modelled as the sequence of its tokens.                *)
(***************************************************************************)
RECURSIVE Flat(_)
Flat(trees) == IF trees = <<>> THEN <<>> ELSE Head(trees) \o Flat(Tail(trees))

UNode(kind, n, spec_id, id) == [kind |-> kind, n |-> n, spec_id |-> spec_id, id |-> id]
UExpr(spec_id, id) == <<UNode("Expr", 0, spec_id, id)>>
UAnd(assertions) == <<UNode("And", Len(assertions), NoId, NoId)>> \o Flat(assertions)
UImplies(lhs, rhs) == <<UNode("Implies", 2, NoId, NoId)>> \o lhs \o rhs
UForAll(body) == <<UNode("ForAll", 1, NoId, NoId)>> \o body

JNode(kind, n, spec_id, expr_id) ==
    [kind |-> kind, n |-> n, spec_id |-> spec_id, expr_id |-> expr_id]
JExpr(spec_id, expr_id) == <<JNode("Expr", 0, spec_id, expr_id)>>
JAnd(assertions) == <<JNode("And", Len(assertions), NoId, NoId)>> \o Flat(assertions)
JImplies(lhs, rhs) == <<JNode("Implies", 2, NoId, NoId)>> \o lhs \o rhs
\* no skeleton: the call has panicked
JAbort == <<JNode("Abort", 0, NoId, NoId)>>

\* ToStructure<Expression> for untyped::Expression
expression_to_structure(x) == JNode("Expr", 0, x.spec_id, x.id)

\* one node of the tree, for the arms the match has
kind_to_structure(x) ==
    IF x.kind = "Expr" THEN expression_to_structure(x)
    ELSE JNode(x.kind, x.n, NoId, NoId)

NotQuantifier(x) == x.kind # "ForAll"

\* the catch-all arm replaced by one that serializes the quantifier's body
to_structure_drop_quantifier(a) ==
    LET kept == SelectSeq(a, NotQuantifier) IN
    [k \in 1..Len(kept) |-> kind_to_structure(kept[k])]

\* ToStructure<AssertionKind> and ToStructure<Assertion>: every node keeps
\* its kind and its children in order; any other node than Expr, And,
\* Implies reaches the catch-all arm and panics (the Assertion struct only
\* boxes its kind)
to_structure(a) ==
    IF \E k \in 1..Len(a) : a[k].kind \notin {"Expr", "And", "Implies"} THEN JAbort
    ELSE [k \in 1..Len(a) |-> kind_to_structure(a[k])]

Quoted(name) == "\"" \o name \o "\""

(***************************************************************************)
(* #[derive(Serialize)]: a struct is an object of its fields in            *)
(* declaration order, an enum variant is {"Variant": payload}, a tuple     *)
(* variant's payload and a Vec are arrays.  The nodes are written in       *)
(* prefix order; `open` holds, for every And or Implies being written,     *)
(* the number of its children still to come.                               *)
(***************************************************************************)
SStart == [out |-> <<>>, open |-> <<>>]

ExprText(x) ==
    <<"{", Quoted("kind"), ":", "{", Quoted("Expr"), ":",
      "{", Quoted("spec_id"), ":", ser_id(x.spec_id), ",",
           Quoted("expr_id"), ":", ser_id(x.expr_id), "}", "}", "}">>
OpenText(x) == <<"{", Quoted("kind"), ":", "{", Quoted(x.kind), ":", "[">>
\* the end of m arrays, each with the end of its variant and of its struct
CloseText(m) == [i \in 1..(3 * m) |-> IF i % 3 = 1 THEN "]" ELSE "}"]

\* how many of the innermost open arrays end with the child just written:
\* those that waited for their last child
Ending(open) ==
    CHOOSE m \in 0..Len(open) :
        /\ \A i \in (Len(open) - m + 1)..Len(open) : open[i].left = 1
        /\ m = Len(open) \/ open[Len(open) - m].left # 1

\* a child has been written: the arrays it ends are closed, and the array
\* that goes on has one child less to come
child_written(out, open) ==
    LET m == Ending(open)
        rest == SubSeq(open, 1, Len(open) - m)
    IN  [out |-> out \o CloseText(m),
         open |-> IF rest = <<>> THEN rest
                  ELSE [rest EXCEPT ![Len(rest)].left = @ - 1, ![Len(rest)].first = FALSE]]

serialize_node(s, x) ==
    LET comma == IF s.open # <<>> /\ ~s.open[Len(s.open)].first THEN <<",">> ELSE <<>> IN
    IF x.kind = "Expr" THEN child_written(s.out \o comma \o ExprText(x), s.open)
    ELSE IF x.n = 0 THEN child_written(s.out \o comma \o OpenText(x) \o CloseText(1), s.open)
    ELSE [out |-> s.out \o comma \o OpenText(x),
          open |-> Append(s.open, [left |-> x.n, first |-> TRUE])]

\* the value is written in full: something is written and no array is open
Written(s) == s.out # <<>> /\ s.open = <<>>

\* the nodes lo..hi written one after the other (as two halves, each
\* written the same way)
RECURSIVE serialize_nodes(_, _, _, _)
serialize_nodes(s, j, lo, hi) ==
    IF Written(s) \/ lo > hi THEN s
    ELSE IF lo = hi THEN serialize_node(s, j[lo])
    ELSE LET mid == (lo + hi) \div 2 IN
         serialize_nodes(serialize_nodes(s, j, lo, mid), j, mid + 1, hi)

serialize(j) == serialize_nodes(SStart, j, 1, Len(j)).out

\* to_json_string: the tokens of the string, or the panic
to_json_string(a) ==
    LET structure == to_structure(a) IN
    IF structure = JAbort THEN [ok |-> FALSE, toks |-> <<>>]
    ELSE [ok |-> TRUE, toks |-> serialize(structure)]

\* serde_json's default recursion limit: remaining_depth at the start of a
\* parse; entering an object, an array or an enum that is deserialized
\* takes one, and the one that would leave none is an error
RecursionLimit == 128

(***************************************************************************)
(* serde_json::from_str with the derived Deserialize of Assertion,         *)
(* AssertionKind and Expression.  The parser reads one token at a time;    *)
(* `stack` holds one frame for every object, array or enum it is inside    *)
(* (the recursion of the deserializer), each with the phase `ph` it is in. *)
(***************************************************************************)
Frame(f, ph) ==
    [f |-> f, ph |-> ph, tag |-> "", found |-> FALSE, val |-> JAbort, vals |-> <<>>,
     spec_id |-> NoId, expr_id |-> NoId]

PStart == [status |-> "start", stack |-> <<>>, result |-> JAbort]
PFail == [status |-> "err", stack |-> <<>>, result |-> JAbort]
PDone(val) == [status |-> "done", stack |-> <<>>, result |-> val]
Running(stack) == [status |-> "run", stack |-> stack, result |-> JAbort]

Top(stack) == stack[Len(stack)]
Pop(stack) == SubSeq(stack, 1, Len(stack) - 1)
SetTop(stack, frame) == [stack EXCEPT ![Len(stack)] = frame]
SetPhase(stack, ph) == [stack EXCEPT ![Len(stack)].ph = ph]

\* check_recursion!: a further frame of the deserializer
push(stack, frame) ==
    IF RecursionLimit - (Len(stack) + 1) <= 0 THEN PFail
    ELSE Running(Append(stack, frame))

\* #[derive(Deserialize)] for struct Assertion starts at t: an object of
\* its field, or an array of it
begin_assertion(stack, t) ==
    IF t = "{" THEN push(stack, Frame("assertion", "first"))
    ELSE IF t = "[" THEN push(stack, Frame("assertion_seq", "kind"))
    ELSE PFail

\* #[derive(Deserialize)] for enum AssertionKind starts at t: an object
\* with the one key naming the variant (a bare string names a unit variant,
\* and there is none)
begin_kind(stack, t) ==
    IF t = "{" THEN push(stack, Frame("kind", "tag")) ELSE PFail

\* #[derive(Deserialize)] for struct Expression starts at t
begin_expression(stack, t) ==
    IF t = "{" THEN push(stack, Frame("expression", "first"))
    ELSE IF t = "[" THEN push(stack, Frame("expression_seq", "spec_id"))
    ELSE PFail

\* the Vec of And, the pair of Implies
begin_list(stack, t) ==
    IF t = "[" THEN push(stack, Frame("list", "first")) ELSE PFail

\* the value of an unknown field is read and dropped (ignore_value: in a
\* loop, whatever the depth)
begin_skip(stack, t) ==
    IF t = "[" THEN Running(Append(stack, Frame("skip_array", "first")))
    ELSE IF t = "{" THEN Running(Append(stack, Frame("skip_object", "first")))
    ELSE IF t \in {"true", "false", "null"} \/ IsStringTok(t) \/ IsNumberTok(t)
    THEN Running(stack)
    ELSE PFail

\* a finished value is handed to the frame that waited for it
deliver(stack, val) ==
    IF stack = <<>> THEN PDone(val)
    ELSE LET top == Top(stack) IN
         CASE top.f \in {"assertion", "assertion_seq"} ->
                  Running(SetTop(stack, [top EXCEPT !.found = TRUE, !.val = val]))
           [] top.f = "list" ->
                  Running(SetTop(stack, [top EXCEPT !.vals = Append(top.vals, val)]))
           [] OTHER -> Running(SetTop(stack, [top EXCEPT !.val = val]))

\* a finished array of assertions is handed to the variant that holds it
deliver_list(stack, vals) ==
    LET top == Top(stack) IN
    IF top.tag = "And" THEN Running(SetTop(stack, [top EXCEPT !.val = JAnd(vals)]))
    ELSE IF Len(vals) = 2
    THEN Running(SetTop(stack, [top EXCEPT !.val = JImplies(vals[1], vals[2])]))
    ELSE PFail

\* struct Assertion, map form: the field kind exactly once, under any
\* spelling of its key; unknown fields dropped
step_assertion(stack, top, t) ==
    CASE top.ph \in {"first", "after"} /\ t = "}" ->
             IF top.found THEN deliver(Pop(stack), top.val) ELSE PFail
      [] top.ph = "after" /\ t = "," -> Running(SetPhase(stack, "key"))
      [] top.ph \in {"first", "key"} /\ parse_str(t) # StrErr ->
             IF ~IsName(t, "kind") THEN Running(SetPhase(stack, "colon_skip"))
             ELSE IF top.found THEN PFail
             ELSE Running(SetPhase(stack, "colon_kind"))
      [] top.ph = "colon_kind" /\ t = ":" -> Running(SetPhase(stack, "value_kind"))
      [] top.ph = "colon_skip" /\ t = ":" -> Running(SetPhase(stack, "value_skip"))
      [] top.ph = "value_kind" -> begin_kind(SetPhase(stack, "after"), t)
      [] top.ph = "value_skip" -> begin_skip(SetPhase(stack, "after"), t)
      [] OTHER -> PFail

\* struct Assertion, array form: exactly the kind
step_assertion_seq(stack, top, t) ==
    CASE top.ph = "kind" -> begin_kind(SetPhase(stack, "close"), t)
      [] top.ph = "close" /\ t = "]" -> deliver(Pop(stack), top.val)
      [] OTHER -> PFail

\* enum AssertionKind: Expr holds an Expression, And an array of
\* assertions, Implies an array of exactly two assertions
step_kind(stack, top, t) ==
    CASE top.ph = "tag" /\ IsName(t, "Expr") ->
             Running(SetTop(stack, [top EXCEPT !.tag = "Expr", !.ph = "colon"]))
      [] top.ph = "tag" /\ IsName(t, "And") ->
             Running(SetTop(stack, [top EXCEPT !.tag = "And", !.ph = "colon"]))
      [] top.ph = "tag" /\ IsName(t, "Implies") ->
             Running(SetTop(stack, [top EXCEPT !.tag = "Implies", !.ph = "colon"]))
      [] top.ph = "colon" /\ t = ":" -> Running(SetPhase(stack, "payload"))
      [] top.ph = "payload" /\ top.tag = "Expr" -> begin_expression(SetPhase(stack, "end"), t)
      [] top.ph = "payload" /\ top.tag # "Expr" -> begin_list(SetPhase(stack, "end"), t)
      [] top.ph = "end" /\ t = "}" -> deliver(Pop(stack), top.val)
      [] OTHER -> PFail

\* struct Expression, map form: the fields in any order, each at most
\* once, unknown fields dropped, none missing at the closing brace
step_expression(stack, top, t) ==
    CASE top.ph \in {"first", "after"} /\ t = "}" ->
             IF top.spec_id # NoId /\ top.expr_id # NoId
             THEN deliver(Pop(stack), JExpr(top.spec_id, top.expr_id))
             ELSE PFail
      [] top.ph = "after" /\ t = "," -> Running(SetPhase(stack, "key"))
      [] top.ph \in {"first", "key"} /\ IsName(t, "spec_id") ->
             IF top.spec_id # NoId THEN PFail ELSE Running(SetPhase(stack, "colon_spec_id"))
      [] top.ph \in {"first", "key"} /\ IsName(t, "expr_id") ->
             IF top.expr_id # NoId THEN PFail ELSE Running(SetPhase(stack, "colon_expr_id"))
      [] /\ top.ph \in {"first", "key"} /\ parse_str(t) # StrErr
         /\ ~IsName(t, "spec_id") /\ ~IsName(t, "expr_id") ->
             Running(SetPhase(stack, "colon_skip"))
      [] top.ph = "colon_spec_id" /\ t = ":" -> Running(SetPhase(stack, "value_spec_id"))
      [] top.ph = "colon_expr_id" /\ t = ":" -> Running(SetPhase(stack, "value_expr_id"))
      [] top.ph = "colon_skip" /\ t = ":" -> Running(SetPhase(stack, "value_skip"))
      [] top.ph = "value_spec_id" /\ de_id(t) # NoId ->
             Running(SetTop(stack, [top EXCEPT !.spec_id = de_id(t), !.ph = "after"]))
      [] top.ph = "value_expr_id" /\ de_id(t) # NoId ->
             Running(SetTop(stack, [top EXCEPT !.expr_id = de_id(t), !.ph = "after"]))
      [] top.ph = "value_skip" -> begin_skip(SetPhase(stack, "after"), t)
      [] OTHER -> PFail

\* struct Expression, array form: exactly its fields in declaration order
step_expression_seq(stack, top, t) ==
    CASE top.ph = "spec_id" /\ de_id(t) # NoId ->
             Running(SetTop(stack, [top EXCEPT !.spec_id = de_id(t), !.ph = "comma"]))
      [] top.ph = "comma" /\ t = "," -> Running(SetPhase(stack, "expr_id"))
      [] top.ph = "expr_id" /\ de_id(t) # NoId ->
             Running(SetTop(stack, [top EXCEPT !.expr_id = de_id(t), !.ph = "close"]))
      [] top.ph = "close" /\ t = "]" ->
             deliver(Pop(stack), JExpr(top.spec_id, top.expr_id))
      [] OTHER -> PFail

\* an array of assertions: elements separated by commas, none after the
\* last
step_list(stack, top, t) ==
    CASE top.ph \in {"first", "after"} /\ t = "]" -> deliver_list(Pop(stack), top.vals)
      [] top.ph = "after" /\ t = "," -> Running(SetPhase(stack, "element"))
      [] top.ph \in {"first", "element"} /\ t # "]" ->
             begin_assertion(SetPhase(stack, "after"), t)
      [] OTHER -> PFail

\* an array that is dropped
step_skip_array(stack, top, t) ==
    CASE top.ph \in {"first", "after"} /\ t = "]" -> Running(Pop(stack))
      [] top.ph = "after" /\ t = "," -> Running(SetPhase(stack, "element"))
      [] top.ph \in {"first", "element"} /\ t # "]" ->
             begin_skip(SetPhase(stack, "after"), t)
      [] OTHER -> PFail

\* an object that is dropped
step_skip_object(stack, top, t) ==
    CASE top.ph \in {"first", "after"} /\ t = "}" -> Running(Pop(stack))
      [] top.ph = "after" /\ t = "," -> Running(SetPhase(stack, "key"))
      [] top.ph \in {"first", "key"} /\ IsStringTok(t) -> Running(SetPhase(stack, "colon"))
      [] top.ph = "colon" /\ t = ":" -> Running(SetPhase(stack, "value"))
      [] top.ph = "value" -> begin_skip(SetPhase(stack, "after"), t)
      [] OTHER -> PFail

\* the parser reads the token t; after the assertion only the end of the
\* text may follow
step(state, t) ==
    IF state.status = "err" THEN state
    ELSE IF state.status = "done" THEN PFail
    ELSE IF state.status = "start" THEN begin_assertion(<<>>, t)
    ELSE LET stack == state.stack
             top == Top(stack)
         IN  CASE top.f = "assertion" -> step_assertion(stack, top, t)
               [] top.f = "assertion_seq" -> step_assertion_seq(stack, top, t)
               [] top.f = "kind" -> step_kind(stack, top, t)
               [] top.f = "expression" -> step_expression(stack, top, t)
               [] top.f = "expression_seq" -> step_expression_seq(stack, top, t)
               [] top.f = "list" -> step_list(stack, top, t)
               [] top.f = "skip_array" -> step_skip_array(stack, top, t)
               [] OTHER -> step_skip_object(stack, top, t)

\* the tokens lo..hi read one after the other (as two halves, each read
\* the same way)
RECURSIVE parse_tokens(_, _, _, _)
parse_tokens(state, toks, lo, hi) ==
    IF lo > hi THEN state
    ELSE IF lo = hi THEN step(state, toks[lo])
    ELSE LET mid == (lo + hi) \div 2
             half == parse_tokens(state, toks, lo, mid)
         IN  IF half.status = "err" THEN half
             ELSE parse_tokens(half, toks, mid + 1, hi)

\* Assertion::from_json_string: the whole string must be one assertion;
\* unwrap panics on any error
from_json_string(toks) ==
    LET final == parse_tokens(PStart, toks, 1, Len(toks)) IN
    IF final.status = "done" THEN final.result ELSE JAbort

(***************************************************************************)
(* Inputs of the serialization boundary.                                   *)
(***************************************************************************)
Ids == {IdOf(n) : n \in 0..MaxId}
ULeaves == {UExpr(s, i) : s \in Ids, i \in Ids}
ULeafA == UExpr(IdOf(0), IdOf(MaxId))
ULeafB == UExpr(IdOf(MaxId), IdOf(0))
UQuantifier == UForAll(ULeafA)

USmall == ULeaves \cup {UAnd(<<>>), UAnd(<<ULeafA>>), UAnd(<<ULeafB, ULeafA>>),
                        UImplies(ULeafA, ULeafB), UQuantifier,
                        UAnd(<<ULeafA, UQuantifier>>), UImplies(UQuantifier, ULeafB),
                        UImplies(ULeafB, UQuantifier)}
\* a leaf inside n nested conjunctions of one child each
NestedAnd(n, leaf) == [k \in 1..n |-> UNode("And", 1, NoId, NoId)] \o leaf
\* the deepest such nesting the parser reads back: three frames for each
\* conjunction and three for the leaf
NestingRead == (RecursionLimit - 4) \div 3
UDeep == {NestedAnd(NestingRead, ULeafA), NestedAnd(NestingRead + 1, ULeafA)}

UTrees == USmall \cup {UAnd(s) : s \in SeqsUpTo(USmall, MaxChildren)}
                 \cup {UImplies(x, y) : x \in USmall, y \in USmall}
                 \cup UDeep

NoJson == [ok |-> FALSE, toks |-> <<"<none>">>]

\* strings handed to from_json_string by another stage: the text of one
\* leaf with its fields in either order, with unknown fields, in the array
\* forms, and texts that serde rejects
WireKind(tag, payload) == <<"{", Quoted(tag), ":">> \o payload \o <<"}">>
WireAssertion(kind) == <<"{", Quoted("kind"), ":">> \o kind \o <<"}">>
WireField(name, text) == <<Quoted(name), ":">> \o text
WireObject(f, g) == <<"{">> \o f \o <<",">> \o g \o <<"}">>
WireSpecId == WireField("spec_id", <<ser_id(IdOf(0))>>)
WireExprId == WireField("expr_id", <<ser_id(IdOf(MaxId))>>)
WireLeaf == WireAssertion(WireKind("Expr", WireObject(WireSpecId, WireExprId)))
WireExpressions ==
    { WireObject(WireSpecId, WireExprId),
      WireObject(WireExprId, WireSpecId),
      WireObject(WireSpecId, WireExprId \o <<",">> \o WireField("note", <<"1.5e3">>)),
      WireObject(WireField("note", <<"[", "null", ",", "{", Quoted("x"), ":", "true", "}", "]">>),
                 WireExprId \o <<",">> \o WireSpecId),
      <<"[", ser_id(IdOf(0)), ",", ser_id(IdOf(MaxId)), "]">>,
      <<"[", ser_id(IdOf(0)), "]">>,
      <<"[", ser_id(IdOf(0)), ",", ser_id(IdOf(MaxId)), ",", ser_id(IdOf(0)), "]">>,
      WireObject(WireSpecId, WireSpecId),
      WireObject(WireSpecId, WireField("note", <<"0">>)),
      WireObject(WireSpecId, WireExprId \o <<",">>),
      WireObject(WireSpecId, WireField("expr_id", <<"-1">>)),
      WireObject(WireSpecId, WireField("expr_id", <<Quoted("1")>>)),
      WireObject(WireSpecId, WireExprId \o <<",">> \o WireField("note", <<"[", "0", ",", "]">>)) }
WireInputs ==
    {WireAssertion(WireKind("Expr", x)) : x \in WireExpressions}
      \cup {<<"[">> \o WireKind("Expr", x) \o <<"]">> : x \in WireExpressions}
      \cup { WireObject(WireField("extra", <<"0">>), WireField("kind", WireKind("Expr", x)))
                : x \in WireExpressions }
      \cup { WireObject(WireField("kind", WireKind("Expr", x)), WireField("extra", <<Quoted("s")>>))
                : x \in WireExpressions }
      \cup { WireAssertion(WireKind("And", <<"[">> \o WireLeaf \o <<",">>
                                               \o WireAssertion(WireKind("Expr", x)) \o <<"]">>))
                : x \in WireExpressions }
      \cup { WireAssertion(WireKind("Implies", <<"[">> \o WireLeaf \o <<"]">>)),
             WireAssertion(WireKind("Implies", <<"[">> \o WireLeaf \o <<",">> \o WireLeaf \o <<"]">>)),
             WireAssertion(WireKind("ForAll", <<"[">> \o WireLeaf \o <<"]">>)),
             WireAssertion(<<Quoted("Expr")>>),
             WireObject(WireField("kind", WireKind("And", <<"[", "]">>)),
                        WireField("kind", WireKind("And", <<"[", "]">>))),
             <<"{", "}">>, <<"[", "]">>, <<"null">>,
             WireLeaf \o WireLeaf,
             WireAssertion(WireKind("Expr", WireObject(WireSpecId, WireExprId)) \o <<"}">>) }

(***************************************************************************)
(* Inputs of the encoder.                                                  *)
(***************************************************************************)
NoExpr == [e |-> "None"]
NoStore == [cur |-> <<>>, old |-> <<>>]

\* the procedure: fn f(a: u32, c: u32, flag: bool) -> u32, locals _0.._3
LocalsPlain == <<"", "a", "c", "flag">>
\* the same with a further local named like the quantified variable i
LocalsShadow == <<"", "a", "c", "flag", "i">>
\* an argument named result, and two locals of the same name
LocalsResult == <<"", "result", "a", "a">>
LocalTables == {LocalsPlain, LocalsShadow, LocalsResult}

Pa == HPath("a", "Local", "u32")
Pc == HPath("c", "Local", "u32")
Pflag == HPath("flag", "Local", "bool")
Pi == HPath("i", "Local", "i32")
Presult == HPath("result", "Local", "u32")
Lit(n) == HLitInt(n, "Unsuffixed", "u32")

IntOperands == {Pa, Pc, HBinary("BiAdd", Pa, Lit(1), "u32")} \cup {Lit(n) : n \in 0..MaxLit}
BoolOperands == {Pflag, HLitBool(TRUE), HLitBool(FALSE), HBinary("BiEq", Pa, Pc, "bool"),
                 HBinary("BiAnd", Pflag, HLitBool(TRUE), "bool"), HUnary("UnNot", Pflag, "bool")}

ArithOps == {"BiAdd", "BiSub", "BiMul", "BiDiv", "BiRem"}
LogicOps == {"BiAnd", "BiOr"}
BitOps == {"BiBitXor", "BiBitAnd", "BiBitOr"}
ShiftOps == {"BiShl", "BiShr"}
CmpOps == {"BiEq", "BiLt", "BiLe", "BiNe", "BiGt", "BiGe"}

\* the binary expressions the type checker accepts over the operands
BinaryInputs ==
    {HBinary(op, l, r, "u32") : op \in ArithOps \cup BitOps \cup ShiftOps,
                                l \in IntOperands, r \in IntOperands}
    \cup {HBinary(op, l, r, "bool") : op \in LogicOps \cup BitOps \cup CmpOps,
                                      l \in BoolOperands, r \in BoolOperands}
    \cup {HBinary(op, l, r, "bool") : op \in CmpOps, l \in IntOperands, r \in IntOperands}

\* !e is logical not on bool and bitwise not on integers
NotInputs ==
    {HUnary("UnNot", x, x.ty) : x \in IntOperands \cup BoolOperands}
    \cup {HUnary("UnNot", HBinary(op, Pa, Pc, "bool"), "bool") : op \in CmpOps}
    \cup {HUnary("UnNot", HUnary("UnNot", Pflag, "bool"), "bool"),
          HUnary("UnNot", HBinary("BiShl", Pa, Pc, "u32"), "u32")}

NegInputs == {HUnary("UnNeg", x, "i32") : x \in IntOperands \cup {Pi}}

OldFn == HPath("old", "Fn", "fn")
OtherFn == HPath("foo", "Fn", "fn")
CallArgs == IntOperands \cup BoolOperands
               \cup {HUnary("UnNot", Pflag, "bool"), HUnary("UnNot", HLitBool(TRUE), "bool"),
                     HBinary("BiLt", Pa, Lit(1), "bool"), HBinary("BiShl", Pa, Pc, "u32"),
                     HIf(Pflag, Pa, Pc, "u32")}
CallInputs ==
    {HCall(OldFn, <<x>>, x.ty) : x \in CallArgs}
    \cup {HCall(OldFn, <<HCall(OldFn, <<x>>, x.ty)>>, x.ty) : x \in {Pa, Pflag}}
    \cup {HCall(OtherFn, <<x>>, x.ty) : x \in {Pa, Pflag}}
    \cup {HCall(f, <<>>, "u32") : f \in {OldFn, OtherFn}}
    \cup {HCall(f, <<Pa, Pc>>, "u32") : f \in {OldFn, OtherFn}}
    \cup {HCall(HOther("fn"), <<Pa>>, "u32"),
          HCall(HField(Pa, "f", 0, -1, "fn"), <<Pa>>, "u32")}

\* match arms: wildcard and literal patterns, up to two alternatives per arm
PLit(n) == HPat("Lit", Lit(n), TRUE)
PWild == HPat("Wild", HNone, TRUE)
PatLists == {<<PWild>>, <<PLit(0), PLit(1)>>, <<PLit(1), PWild>>}
               \cup {<<PLit(n)>> : n \in 0..MaxLit}
\* the body of the k-th arm is recognisable by its value
ArmBody(k) == IF k = 2 THEN HBinary("BiAdd", Pc, Lit(k), "u32") ELSE HLitInt(10 + k, "Unsuffixed", "u32")
ArmLists ==
    UNION {{[k \in 1..n |-> HArm(ps[k], FALSE, ArmBody(k))] : ps \in [1..n -> PatLists]}
              : n \in 1..MaxArms}
MatchInputs ==
    {HMatch(Pa, arms, "u32") : arms \in ArmLists}
    \cup {HMatch(Pa, <<HArm(<<PLit(0)>>, TRUE, Lit(1)), HArm(<<PWild>>, FALSE, Lit(2))>>, "u32"),
          HMatch(Pa, <<HArm(<<HPat("Binding", HNone, TRUE)>>, FALSE, Lit(1))>>, "u32"),
          HMatch(Pa, <<HArm(<<HPat("Tuple", HNone, TRUE)>>, FALSE, Lit(1)),
                       HArm(<<PWild>>, FALSE, Lit(2))>>, "u32"),
          HMatch(Pa, <<HArm(<<HPat("Struct", HNone, FALSE)>>, FALSE, Lit(1)),
                       HArm(<<PWild>>, FALSE, Lit(2))>>, "u32"),
          HMatch(Pflag, <<HArm(<<HPat("Lit", HLitBool(TRUE), TRUE)>>, FALSE, Pa),
                          HArm(<<HPat("Lit", HLitBool(FALSE), TRUE)>>, FALSE, Pc)>>, "u32"),
          HMatch(Pa, <<>>, "u32")}

OtherInputs ==
    {HIf(Pflag, Pa, Pc, "u32"), HIf(Pflag, Pa, HNone, "unit"),
     HIf(HBinary("BiLt", Pa, Pc, "bool"), Lit(0), Lit(1), "u32"),
     HBlock(TRUE, Pa, "u32"), HBlock(FALSE, Pa, "u32"), HBlock(TRUE, HNone, "unit"),
     HOther("u32"), HLitStr, HLitInt(1, "Signed", "i32"), HLitInt(1, "Unsigned", "u32"),
     HField(HPath("p", "Local", "adt"), "f", 0, -1, "u32"),
     HUnary("UnDeref", HPath("r", "Local", "ref"), "u32")}

\* path expressions: real locals, quantified variables, and quantified
\* variables named like a local or like the return value
VarPaths ==
    {Pa, Pc, Pflag, Pi, Presult,
     HPath("a", "Local", "i32"), HPath("result", "Local", "bool"),
     HPath("flag", "Local", "i32"), HPath("j", "Local", "u32"),
     HPath("b", "Local", "bool"), HPath("p", "Local", "adt"),
     HPath("K", "Const", "u32"), HPath("result", "Const", "u32")}

\* path-shaped expressions over the procedure
\* fn g(a: u32, flag: bool, p: P, t: (..), r: &T), locals _0.._5
LocalsAgg == <<"", "a", "flag", "p", "t", "r">>
Pp == HPath("p", "Local", "adt")
Pt == HPath("t", "Local", "tuple")
Pr == HPath("r", "Local", "ref")
PathTys == {"bool", "u32", "i32", "adt", "tuple", "ref"}
PathRoots ==
    {Pp, Pt, HField(Pp, "g", 1, -1, "adt"), HField(Pt, "0", 0, -1, "tuple"),
     HUnary("UnDeref", Pr, "adt"), HUnary("UnDeref", HField(Pp, "r", 2, -1, "ref"), "adt")}
PathInputs ==
    {Pa, Pflag, Pi, Pp, Pt, Pr, HPath("a", "Local", "i32"), HPath("b", "Local", "bool")}
    \cup {HField(base, "f", 0, v, ty) : base \in PathRoots, v \in {-1, 1}, ty \in PathTys}
    \cup {HUnary("UnDeref", base, ty) :
              base \in {Pr, HField(Pp, "r", 2, -1, "ref"), HUnary("UnDeref", Pr, "ref")},
              ty \in PathTys}
    \cup {HField(Lit(1), "f", 0, -1, "u32"), HUnary("UnDeref", HOther("ref"), "u32"),
          HField(HUnary("UnNot", Pflag, "bool"), "f", 0, -1, "u32"),
          HField(Pi, "f", 0, -1, "u32")}

ExprInputs ==
    IntOperands \cup BoolOperands \cup BinaryInputs \cup NotInputs \cup NegInputs
        \cup CallInputs \cup MatchInputs \cup OtherInputs

\* quantifiers
ArgChoices == {HArg("Binding", "i", "i32"), HArg("Binding", "j", "u32"),
               HArg("Binding", "b", "bool"), HArg("Binding", "p", "adt"),
               HArg("Lit", "0", "i32"), HArg("Tuple", "t", "tuple"),
               HArg("Tuple", "n", "u32"), HArg("Binding", "a", "i32")}
TriggerChoices == {<<>>, <<<<Pi>>>>, <<<<Pi, HPath("j", "Local", "u32")>>, <<Pa>>>>,
                   <<<<HOther("u32")>>>>}
FilterChoices == {HLitBool(TRUE), HBinary("BiLe", Lit(0), Pi, "bool")}
BodyChoices == {HBinary("BiLt", Pi, Pa, "bool"), HBinary("BiEq", HPath("a", "Local", "i32"), Pi, "bool")}
ForAllInputs ==
    {AForAll(vs, ts, f, b) : vs \in SeqsUpTo(ArgChoices, MaxVars), ts \in TriggerChoices,
                             f \in FilterChoices, b \in BodyChoices}

\* conjunctions and implications
LeafAssertions == {AExpr(Pflag), AExpr(HBinary("BiLt", Pa, Pc, "bool")),
                   AExpr(HUnary("UnNot", HLitBool(TRUE), "bool")), AExpr(HLitBool(TRUE))}
SmallAssertions ==
    LeafAssertions
    \cup {AAnd(<<>>), AAnd(<<AExpr(Pflag), AExpr(HLitBool(FALSE))>>),
          AImplies(Pflag, AExpr(HBinary("BiEq", Pa, Pc, "bool"))),
          AForAll(<<HArg("Binding", "i", "i32")>>, <<>>, HLitBool(TRUE),
                  HBinary("BiLt", Pi, Pa, "bool")),
          AForAll(<<HArg("Binding", "b", "bool")>>, <<>>, HLitBool(TRUE), HLitBool(TRUE))}
AndInputs == {AAnd(cs) : cs \in SeqsUpTo(SmallAssertions, MaxChildren)}
ImpliesInputs == {AImplies(l, r) : l \in {Pflag, HLitBool(TRUE), HUnary("UnNot", Lit(0), "u32")},
                                   r \in SmallAssertions}

AssertionInputs ==
    {AExpr(x) : x \in ExprInputs} \cup ForAllInputs \cup AndInputs \cup ImpliesInputs

Inputs ==
    {[locals |-> LocalsPlain, a |-> x] : x \in AssertionInputs}
    \cup {[locals |-> t, a |-> AExpr(x)] : t \in LocalTables, x \in VarPaths}
    \cup {[locals |-> LocalsShadow, a |-> x] : x \in ForAllInputs}
    \cup {[locals |-> LocalsAgg, a |-> AExpr(x)] : x \in PathInputs}

\* slot valuations: a and c range over the literals, flag over the booleans
Valuation(a, c, flag) ==
    [n \in {"_0", "_1", "_2", "_3", "_4", "i"} |->
        CASE n = "_1" -> VInt(a)
          [] n = "_2" -> VInt(c)
          [] n = "_3" -> VBool(flag)
          [] OTHER -> VInt(1)]
Stores == {[cur |-> Valuation(a, c, flag), old |-> Valuation(c, a, ~flag)] :
              a \in 0..MaxLit, c \in 0..MaxLit, flag \in BOOLEAN}
          \cup {[cur |-> Valuation(4, 5, TRUE), old |-> Valuation(4, 4, TRUE)],
                [cur |-> Valuation(4, 4, FALSE), old |-> Valuation(5, 4, FALSE)]}

(***************************************************************************)
(* The state machines.                                                     *)
(***************************************************************************)
EncoderIdle ==
    /\ local_decls = <<>> /\ assertion = AExpr(HNone) /\ encoded = NoExpr
    /\ store = NoStore /\ value = VErr /\ pc = "idle"

JsonIdle ==
    /\ untyped = UAnd(<<>>) /\ json = NoJson /\ skeleton = JAbort /\ jpc = "idle"

Init ==
    /\ \E i \in Inputs : local_decls = i.locals /\ assertion = i.a
    /\ encoded = NoExpr /\ store = NoStore /\ value = VErr /\ pc = "ready"
    /\ JsonIdle

\* pub fn encode_assertion(&self, assertion) -> vir::Expr
EncodeAssertion ==
    /\ pc = "ready"
    /\ encoded' = encode_assertion(assertion)
    /\ pc' = "encoded"
    /\ UNCHANGED <<local_decls, assertion, store, value, untyped, json, skeleton, jpc>>

\* the consumer of the IR: the value of the expression in some state
Evaluate ==
    /\ pc = "encoded"
    /\ ~IsAbort(encoded)
    /\ \E st \in Stores :
          /\ store' = st
          /\ value' = Eval(encoded, st.cur, st.old)
    /\ pc' = "evaluated"
    /\ UNCHANGED <<local_decls, assertion, encoded, untyped, json, skeleton, jpc>>

Next == EncodeAssertion \/ Evaluate

Spec == Init /\ [][Next]_vars

\* either a tree about to be serialized, or a string received from another
\* stage about to be parsed
InitJson ==
    /\ EncoderIdle
    /\ skeleton = JAbort
    /\ \/ untyped \in UTrees /\ json = NoJson /\ jpc = "ready"
       \/ /\ untyped = UAnd(<<>>) /\ jpc = "received"
          /\ \E w \in WireInputs : json = [ok |-> TRUE, toks |-> w]

\* pub fn to_json_string(assertion: &untyped::Assertion) -> String
ToJsonString ==
    /\ jpc = "ready"
    /\ json' = to_json_string(untyped)
    /\ jpc' = IF json'.ok THEN "serialized" ELSE "aborted"
    /\ UNCHANGED <<local_decls, assertion, encoded, store, value, pc, untyped, skeleton>>

\* pub fn from_json_string(json: &str) -> Assertion
FromJsonString ==
    /\ jpc \in {"serialized", "received"}
    /\ skeleton' = from_json_string(json.toks)
    /\ jpc' = IF jpc = "serialized" THEN "parsed"
              ELSE IF skeleton' = JAbort THEN "rejected" ELSE "decoded"
    /\ UNCHANGED <<local_decls, assertion, encoded, store, value, pc, untyped, json>>

NextJson == ToJsonString \/ FromJsonString

SpecJson == InitJson /\ [][NextJson]_vars

(***************************************************************************)
(* Properties of the serialization boundary (checked under SpecJson).      *)
(***************************************************************************)
HasQuantifier(u) == \E k \in 1..Len(u) : u[k].kind = "ForAll"

\* the skeleton j has the node kinds, child counts, child order and leaf
\* identifiers of the tree u
SameShape(u, j) ==
    /\ Len(u) = Len(j)
    /\ \A k \in 1..Len(u) :
          /\ u[k].kind = j[k].kind /\ u[k].n = j[k].n
          /\ u[k].kind = "Expr" => (u[k].spec_id = j[k].spec_id /\ u[k].id = j[k].expr_id)

\* C1: a tree without quantifier serializes, and parsing the string gives a
\* skeleton of the same shape with the same (spec_id, expr_id) at every leaf.
C1_RoundTrip ==
    ~HasQuantifier(untyped) =>
        /\ jpc # "aborted"
        /\ jpc \in {"serialized", "parsed"} => json.ok
        /\ jpc = "parsed" => SameShape(untyped, skeleton)

\* C2: a tree with a quantifier at any depth makes to_json_string abort; no
\* string is ever returned for it.
C2_QuantifierAborts ==
    (HasQuantifier(untyped) /\ jpc # "ready") => (jpc = "aborted" /\ ~json.ok)

C2_Witness ==
    /\ jpc = "aborted"
    /\ untyped = UImplies(ULeafB, UAnd(<<ULeafA, UQuantifier>>))
    /\ ~json.ok

(***************************************************************************)
(* Properties of the encoder (checked under Spec).                         *)
(***************************************************************************)
Encoded == pc \in {"encoded", "evaluated"}

\* the value of an integer source operand (a literal, or the argument a or
\* c of the procedure, held in slot _1 or _2) in the valuation st
SrcInt(x, st) ==
    CASE x.node = "Lit" -> x.n
      [] x.node = "Path" /\ x.name = "a" -> st.cur["_1"].ival
      [] x.node = "Path" /\ x.name = "c" -> st.cur["_2"].ival

IsSrcInt(x) ==
    \/ x.node = "Lit" /\ x.lit = "Int"
    \/ x.node = "Path" /\ x.name \in {"a", "c"} /\ x.ty \in IntTys

\* ordinary pattern matching of the integer v
PatMatches(pat, v) == pat.pat = "Wild" \/ (pat.pat = "Lit" /\ pat.expr.n = v)
ArmMatches(arm, v) == \E j \in 1..Len(arm.pats) : PatMatches(arm.pats[j], v)
FirstMatch(arms, v) ==
    CHOOSE k \in 1..Len(arms) :
        ArmMatches(arms[k], v) /\ \A j \in 1..(k - 1) : ~ArmMatches(arms[j], v)

IsIntMatch(x) ==
    /\ x.node = "Match" /\ IsSrcInt(x.expr) /\ x.arms # <<>>
    /\ \A k \in 1..Len(x.arms) :
          /\ ~x.arms[k].has_guard
          /\ \A j \in 1..Len(x.arms[k].pats) :
                \/ x.arms[k].pats[j].pat = "Wild"
                \/ x.arms[k].pats[j].pat = "Lit" /\ x.arms[k].pats[j].expr.lit = "Int"

MatchExample ==
    HMatch(Pa, <<HArm(<<PLit(0)>>, FALSE, ArmBody(1)), HArm(<<PLit(1)>>, FALSE, ArmBody(2)),
                 HArm(<<PWild>>, FALSE, ArmBody(3))>>, "u32")

\* C3: a match over literal and wildcard patterns evaluates to the body of
\* the first arm with a pattern matching the scrutinee, whenever some arm
\* matches; match x {0 => A, 1 => B, _ => C} is ite(x==0, A, ite(x==1, B, C)).
C3_FirstMatch ==
    /\ (pc = "evaluated" /\ assertion.kind = "Expr" /\ IsIntMatch(assertion.expr)) =>
          LET x == assertion.expr
              v == SrcInt(x.expr, store)
          IN  (\E k \in 1..Len(x.arms) : ArmMatches(x.arms[k], v)) =>
                  /\ value.ok
                  /\ value = Eval(encode_hir_expr(x.arms[FirstMatch(x.arms, v)].body),
                                  store.cur, store.old)
    /\ (Encoded /\ assertion = AExpr(MatchExample)) =>
          LET x == encode_hir_expr(Pa) IN
          encoded = Cond(BinOp("EqCmp", x, ConstInt(0)), encode_hir_expr(ArmBody(1)),
                         Cond(BinOp("EqCmp", x, ConstInt(1)), encode_hir_expr(ArmBody(2)),
                              encode_hir_expr(ArmBody(3))))

\* a three-arm match whose second arm is the first to match, through the
\* second of its two patterns
C3_Witness ==
    /\ pc = "evaluated" /\ assertion.kind = "Expr" /\ IsIntMatch(assertion.expr)
    /\ Len(assertion.expr.arms) = 3
    /\ Len(assertion.expr.arms[2].pats) = 2
    /\ ~PatMatches(assertion.expr.arms[2].pats[1], SrcInt(assertion.expr.expr, store))
    /\ FirstMatch(assertion.expr.arms, SrcInt(assertion.expr.expr, store)) = 2
    /\ ArmMatches(assertion.expr.arms[3], SrcInt(assertion.expr.expr, store))
    /\ value = Eval(encode_hir_expr(assertion.expr.arms[2].body), store.cur, store.old)

\* whether a VIR expression denotes a boolean
RECURSIVE IsBoolTyped(_)
IsBoolTyped(x) ==
    CASE x.e = "Place" -> get_type(x) = TypeBool
      [] x.e = "Const" -> x.kind = "Bool"
      [] x.e = "UnaryOp" -> x.op = "Not"
      [] x.e = "BinOp" -> x.op \in {"And", "Or", "Xor", "Implies", "EqCmp", "NeCmp",
                                    "LtCmp", "LeCmp", "GtCmp", "GeCmp"}
      [] x.e = "Cond" -> IsBoolTyped(x.thn)
      [] x.e = "Old" -> IsBoolTyped(x.arg)
      [] x.e = "ForAll" -> TRUE
      [] OTHER -> FALSE

IsExprOf(node) == assertion.kind = "Expr" /\ assertion.expr.node = node

NotOfEq == HUnary("UnNot", HBinary("BiEq", Pa, Pc, "bool"), "bool")

\* C4: !e encodes to not(encode(e)) whenever encode(e) is boolean-typed, and
\* aborts on the type assertion otherwise; !(a == c) encodes and is true
\* when a differs from c.
C4_NotOnBooleans ==
    /\ (Encoded /\ IsExprOf("Unary") /\ assertion.expr.op = "UnNot") =>
          LET inner == encode_hir_expr(assertion.expr.expr) IN
          ~IsAbort(inner) =>
              IF IsBoolTyped(inner) THEN encoded = UnaryOp("Not", inner)
              ELSE encoded = Abort("assert")
    /\ (Encoded /\ assertion = AExpr(NotOfEq)) => ~IsAbort(encoded)
    /\ (pc = "evaluated" /\ assertion = AExpr(NotOfEq)
          /\ store.cur["_1"] # store.cur["_2"]) => value = VBool(TRUE)

VirCmp(op) ==
    CASE op = "BiEq" -> "EqCmp" [] op = "BiNe" -> "NeCmp" [] op = "BiLt" -> "LtCmp"
      [] op = "BiLe" -> "LeCmp" [] op = "BiGt" -> "GtCmp" [] op = "BiGe" -> "GeCmp"

Truth(op, m, n) ==
    CASE op = "BiEq" -> m = n [] op = "BiNe" -> m # n [] op = "BiLt" -> m < n
      [] op = "BiLe" -> m <= n [] op = "BiGt" -> m > n [] op = "BiGe" -> m >= n

\* C5: each of the six comparisons encodes, for operands of any type and
\* shape that encode, to the corresponding VIR comparison of the encoded
\* operands in order; on integers its value is the truth of the comparison.
C5_Comparisons ==
    /\ (Encoded /\ IsExprOf("Binary") /\ assertion.expr.op \in CmpOps) =>
          LET l == encode_hir_expr(assertion.expr.lhs)
              r == encode_hir_expr(assertion.expr.rhs)
          IN  (~IsAbort(l) /\ ~IsAbort(r)) =>
                  encoded = BinOp(VirCmp(assertion.expr.op), l, r)
    /\ (pc = "evaluated" /\ IsExprOf("Binary") /\ assertion.expr.op \in CmpOps
          /\ IsSrcInt(assertion.expr.lhs) /\ IsSrcInt(assertion.expr.rhs)) =>
          value = VBool(Truth(assertion.expr.op, SrcInt(assertion.expr.lhs, store),
                              SrcInt(assertion.expr.rhs, store)))

\* a < c evaluated with a = 4 and c = 5
C5_Witness ==
    /\ pc = "evaluated"
    /\ assertion = AExpr(HBinary("BiLt", Pa, Pc, "bool"))
    /\ store.cur["_1"] = VInt(4) /\ store.cur["_2"] = VInt(5)
    /\ encoded.op = "LtCmp"
    /\ value = VBool(TRUE)

\* C6: a quantifier with a bound variable of non-integer type never encodes
\* (the abort is the integer assertion unless an unsupported binding pattern
\* is met first), and the variables of every forall produced are the
\* declared ones, in order, each of type Int.
C6_QuantifierTypeGuard ==
    (Encoded /\ assertion.kind = "ForAll") =>
        LET vs == assertion.vars IN
        /\ (\E k \in 1..Len(vs) : vs[k].ty \notin IntTys) => IsAbort(encoded)
        /\ ((\E k \in 1..Len(vs) : vs[k].ty \notin IntTys)
              /\ (\A k \in 1..Len(vs) : vs[k].pat \in {"Lit", "Binding"}))
              => encoded = Abort("assert")
        /\ encoded.e = "ForAll" =>
              /\ Len(encoded.vars) = Len(vs)
              /\ \A k \in 1..Len(vs) :
                    /\ vs[k].ty \in IntTys
                    /\ encoded.vars[k] = LocalVar(vs[k].name, TypeInt)

\* a two-variable quantifier whose second variable is a boolean
C6_Witness ==
    /\ Encoded /\ assertion.kind = "ForAll"
    /\ Len(assertion.vars) = 2
    /\ assertion.vars[1].ty = "i32" /\ assertion.vars[2].ty = "bool"
    /\ assertion.vars[2].pat = "Binding"
    /\ encoded = Abort("assert")

\* C7: `result` resolves to _0 with a reference type whatever else carries
\* that name; any other name of a local resolves to that local's slot with
\* a reference type; only a name of no local keeps its name, typed Int.
\* (A resolved variable of a type with no value reading, such as a
\* reference, is rejected afterwards by the path encoder.)
C7_Resolution ==
    (Encoded /\ IsExprOf("Path") /\ assertion.expr.def = "Local") =>
        LET p == assertion.expr
            named == {k \in 1..Len(local_decls) : local_decls[k] = p.name}
            readable == p.ty \in {"bool"} \cup IntTys \cup AggTys
        IN  /\ (p.name = "result" /\ readable) =>
                  /\ IsPlace(encoded)
                  /\ encoded.base = LocalVar("_0", TypedRef(p.ty))
            /\ (p.name # "result" /\ named # {} /\ readable) =>
                  /\ IsPlace(encoded)
                  /\ \E k \in named : encoded.base = LocalVar(LocalName(k - 1), TypedRef(p.ty))
            /\ ((p.name = "result" \/ named # {}) /\ ~readable) => IsAbort(encoded)
            /\ (p.name # "result" /\ named = {}) =>
                  IF p.ty \in IntTys THEN encoded = PlaceBase(LocalVar(p.name, TypeInt))
                  ELSE IsAbort(encoded)
            /\ (IsPlace(encoded) /\ encoded.base.typ = TypeInt) =>
                  (named = {} /\ encoded.base.name = p.name)

\* the quantified variable i read where a local is also named i
C7_Witness ==
    /\ Encoded /\ assertion = AExpr(Pi)
    /\ local_decls = LocalsShadow
    /\ encoded.base = LocalVar("_4", TypedRef("i32"))

\* C8: old(e) encodes to Old(encode(e)); any other call aborts.
C8_OldTransparent ==
    (Encoded /\ IsExprOf("Call")) =>
        LET c == assertion.expr IN
        IF c.callee.node = "Path" /\ c.callee.name = "old" /\ Len(c.arguments) = 1
        THEN LET inner == encode_hir_expr(c.arguments[1]) IN
             IF IsAbort(inner) THEN encoded = inner ELSE encoded = Old(inner)
        ELSE IsAbort(encoded)

C8_Witness ==
    /\ Encoded /\ IsExprOf("Call")
    /\ assertion.expr.arguments = <<HBinary("BiAdd", Pa, Lit(1), "u32")>>
    /\ encoded = Old(BinOp("Add", encode_hir_expr(Pa), ConstInt(1)))

\* the conjunction of c1..cn, associated to the left
RECURSIVE AndOf(_)
AndOf(cs) ==
    IF Len(cs) = 1 THEN cs[1]
    ELSE BinOp("And", AndOf(SubSeq(cs, 1, Len(cs) - 1)), cs[Len(cs)])

\* C9: a conjunction of n >= 1 children encodes to the AND of all encoded
\* children, in order; a conjunction without children is rejected.
C9_Conjunction ==
    (Encoded /\ assertion.kind = "And") =>
        LET cs == assertion.assertions
            es == [k \in 1..Len(cs) |-> encode_assertion(cs[k])]
        IN  /\ Len(cs) = 0 => IsAbort(encoded)
            /\ (Len(cs) >= 1 /\ \A k \in 1..Len(cs) : ~IsAbort(es[k])) =>
                  encoded = AndOf(es)
            /\ (\E k \in 1..Len(cs) : IsAbort(es[k])) => IsAbort(encoded)

VirLogic(op) ==
    CASE op = "BiBitAnd" -> "And" [] op = "BiBitOr" -> "Or" [] op = "BiBitXor" -> "Xor"

\* C10: &, | and ^ encode to and, or and xor exactly when both encoded
\* operands are boolean-typed, whatever their shape, and abort otherwise.
C10_BitwiseOnBooleans ==
    (Encoded /\ IsExprOf("Binary") /\ assertion.expr.op \in BitOps) =>
        LET l == encode_hir_expr(assertion.expr.lhs)
            r == encode_hir_expr(assertion.expr.rhs)
        IN  (~IsAbort(l) /\ ~IsAbort(r)) =>
                IF IsBoolTyped(l) /\ IsBoolTyped(r)
                THEN encoded = BinOp(VirLogic(assertion.expr.op), l, r)
                ELSE encoded = Abort("unimplemented")

IsPathShaped(x) ==
    x.node \in {"Path", "Field"} \/ (x.node = "Unary" /\ x.op = "UnDeref")

ValueAccessors == {"val_bool", "val_int"}
ValueAccessorCount(place) ==
    Cardinality({k \in 1..Len(place.fields) : place.fields[k].name \in ValueAccessors})

\* C11: an accepted path expression whose resolved place is a reference gets
\* exactly one value accessor, val_bool or val_int by its static type, and
\* none when the type is a tuple or an ADT; a place that is a raw value is
\* returned unchanged; so no result has two value accessors or an
\* unwrapped aggregate.
C11_TerminalAccessor ==
    (Encoded /\ assertion.kind = "Expr" /\ IsPathShaped(assertion.expr)
        /\ ~IsAbort(encoded)) =>
        LET x == assertion.expr
            place == encode_hir_path(x)
        IN  /\ IsPlace(place)
            /\ is_ref(get_type(place)) =>
                  /\ x.ty = "bool" => encoded = access(place, Field("val_bool", TypeBool))
                  /\ x.ty \in IntTys => encoded = access(place, Field("val_int", TypeInt))
                  /\ x.ty \in AggTys => encoded = place
                  /\ x.ty \in {"bool"} \cup IntTys \cup AggTys
            /\ ~is_ref(get_type(place)) => encoded = place
            /\ ValueAccessorCount(place) = 0
            /\ ValueAccessorCount(encoded) <= 1
            /\ x.ty \in AggTys => ValueAccessorCount(encoded) = 0

\* the boolean field f of the ADT field g of the argument p
C11_Witness ==
    /\ Encoded /\ local_decls = LocalsAgg
    /\ assertion = AExpr(HField(HField(Pp, "g", 1, -1, "adt"), "f", 0, 1, "bool"))
    /\ IsPlace(encoded)
    /\ encoded.base = LocalVar("_3", TypedRef("adt"))
    /\ Len(encoded.fields) = 3
    /\ encoded.fields[3] = Field("val_bool", TypeBool)

\* the path nodes of a source expression (of the shapes used in filters,
\* bodies and trigger terms)
RECURSIVE HirPaths(_)
HirPaths(x) ==
    CASE x.node = "Path" -> {x}
      [] x.node = "Binary" -> HirPaths(x.lhs) \cup HirPaths(x.rhs)
      [] x.node = "Unary" -> HirPaths(x.expr)
      [] x.node = "Field" -> HirPaths(x.expr)
      [] OTHER -> {}

\* the base variables of the places of a VIR expression
RECURSIVE VirVars(_)
VirVars(x) ==
    CASE x.e = "Place" -> {x.base}
      [] x.e = "UnaryOp" -> VirVars(x.arg)
      [] x.e = "Old" -> VirVars(x.arg)
      [] x.e = "BinOp" -> VirVars(x.left) \cup VirVars(x.right)
      [] x.e = "Cond" -> VirVars(x.guard) \cup VirVars(x.thn) \cup VirVars(x.els)
      [] x.e = "Trigger" -> UNION {VirVars(x.terms[k]) : k \in 1..Len(x.terms)}
      [] OTHER -> {}

SourceOccurrences(a) ==
    HirPaths(a.filter) \cup HirPaths(a.body)
        \cup UNION {UNION {HirPaths(a.triggers[t][k]) : k \in 1..Len(a.triggers[t])}
                       : t \in 1..Len(a.triggers)}

EncodedOccurrences(q) ==
    VirVars(q.body) \cup UNION {VirVars(q.triggers[t]) : t \in 1..Len(q.triggers)}

\* C12: the forall produced for a quantifier has the body filter => body, and
\* every occurrence of a bound variable in the filter, body and triggers is
\* encoded as the variable of the bound list: its own name, type Int.
C12_BinderAgreement ==
    (Encoded /\ assertion.kind = "ForAll" /\ encoded.e = "ForAll") =>
        LET bound == {encoded.vars[k] : k \in 1..Len(encoded.vars)}
            names == {v.name : v \in bound}
            used == {p.name : p \in SourceOccurrences(assertion)} \cap names
        IN  /\ encoded.body = BinOp("Implies", encode_hir_expr(assertion.filter),
                                    encode_hir_expr(assertion.body))
            /\ \A n \in used : LocalVar(n, TypeInt) \in EncodedOccurrences(encoded)
            /\ \A v \in EncodedOccurrences(encoded) : v.name \in names => v \in bound

====
